---- MODULE Spec2Model ----
(***************************************************************************)
(* Model of the Send API builders of package fbmessenger (models.go):      *)
(* the three constructors TextMessage, ImageMessage, ButtonTemplateMessage *)
(* and the five fluent mutators To, ToPhoneNumber, Regular, SilentPush and *)
(* NoPush of *SendRequest.                                                 *)
(*                                                                         *)
(* A *SendRequest is a pointer: the model keeps a heap of SendRequest      *)
(* values and the addresses the caller holds, so that "returns the same    *)
(* SendRequest" is a statement about addresses and not about equal values. *)
(***************************************************************************)
EXTENDS Naturals, Sequences, FiniteSets

VARIABLES
    heap,   \* allocated SendRequest values; an address is an index of heap
    sr,     \* the pointer the constructor returned to the caller (0: none yet)
    ret,    \* the pointer the last mutator call returned (0: none yet)
    ctor,   \* history: the constructor call that built the request
    calls   \* history: the mutator calls made so far, oldest first

vars == <<heap, sr, ret, ctor, calls>>

----------------------------------------------------------------------------
(* Bounds and input domains *)

\* longest button list handed to ButtonTemplateMessage
MaxButtons == 3
\* longest chain of mutator calls explored
MaxCalls == 3

Texts == {"", "hi"}
Urls == {"", "http://x/i.png"}
UserIds == {"", "u1"}
PhoneNumbers == {"", "+15551234"}

\* Button (models.go 138-143)
Button(type, title, url, payload) ==
    [Type |-> type, Title |-> title, Url |-> url, Payload |-> payload]

Buttons == { Button("web_url", "Open", "http://x/", ""),
             Button("postback", "Yes", "", "YES") }

ButtonLists == UNION { [1..n -> Buttons] : n \in 0..MaxButtons }

----------------------------------------------------------------------------
(* The data model: Go zero values are "" for a string and nil for a pointer *)

\* the nil *Attachment
NilAttachment == [Nil |-> TRUE]

\* Recipient (models.go 99-102): a composite literal leaves unnamed fields zero
Recipient(id, phoneNumber) == [Id |-> id, PhoneNumber |-> phoneNumber]

\* Message (models.go 106-109)
Message(text, attachment) == [Text |-> text, Attachment |-> attachment]

\* Attachment (models.go 112-115); Payload is an interface{}: the value
\* carries its dynamic type
Attachment(type, payload) == [Type |-> type, Payload |-> payload]

\* MediaPayload (models.go 122-124)
MediaPayload(url) == [GoType |-> "MediaPayload", Url |-> url]

\* ButtonPayload (models.go 131-135)
ButtonPayload(templateType, text, buttons) ==
    [GoType |-> "ButtonPayload", TemplateType |-> templateType,
     Text |-> text, Buttons |-> buttons]

\* SendRequest (models.go 92-96)
SendRequest(recipient, message, notificationType) ==
    [Recipient |-> recipient, Message |-> message,
     NotificationType |-> notificationType]

----------------------------------------------------------------------------
(* Constructors: the value of the composite literal each one allocates *)

\* mutant: the text also lands in an attachment
TextMessage_AsImage(text) ==
    SendRequest(Recipient("", ""),
                Message(text, Attachment("image", MediaPayload(text))),
                "")

TextMessage(text) ==
    SendRequest(Recipient("", ""), Message(text, NilAttachment), "")

\* mutant: the attachment carries the wrong type tag
ImageMessage_AsTemplate(url) ==
    SendRequest(Recipient("", ""),
                Message("", Attachment("template", MediaPayload(url))),
                "")

\* mutant: the url is stored as the message text as well
ImageMessage_WithText(url) ==
    SendRequest(Recipient("", ""),
                Message(url, Attachment("image", MediaPayload(url))),
                "")

ImageMessage(url) ==
    SendRequest(Recipient("", ""),
                Message("", Attachment("image", MediaPayload(url))),
                "")

\* mutant: the buttons are stored in reverse order
ButtonTemplateMessage_Reversed(text, buttons) ==
    SendRequest(Recipient("", ""),
                Message("", Attachment("template",
                    ButtonPayload("button", text,
                        [i \in 1..Len(buttons) |-> buttons[Len(buttons) + 1 - i]]))),
                "")

ButtonTemplateMessage(text, buttons) ==
    SendRequest(Recipient("", ""),
                Message("", Attachment("template",
                                       ButtonPayload("button", text, buttons))),
                "")

\* &SendRequest{...}: a fresh address holding the value
New(h, v) == [heap |-> Append(h, v), ret |-> Len(h) + 1]

----------------------------------------------------------------------------
(* Mutators: the heap after the call and the pointer returned *)

\* mutant: sr.Recipient.Id = userId, the phone number is not cleared
To_KeepPhoneNumber(h, a, userId) ==
    [heap |-> [h EXCEPT ![a].Recipient.Id = userId], ret |-> a]

To(h, a, userId) ==
    [heap |-> [h EXCEPT ![a].Recipient = Recipient(userId, "")], ret |-> a]

\* mutant: sr.Recipient.PhoneNumber = phoneNumber, the id is not cleared
ToPhoneNumber_KeepId(h, a, phoneNumber) ==
    [heap |-> [h EXCEPT ![a].Recipient.PhoneNumber = phoneNumber], ret |-> a]

ToPhoneNumber(h, a, phoneNumber) ==
    [heap |-> [h EXCEPT ![a].Recipient = Recipient("", phoneNumber)], ret |-> a]

\* mutant: *sr = SendRequest{Message: sr.Message, NotificationType: "REGULAR"}
Regular_Reset(h, a) ==
    [heap |-> [h EXCEPT ![a] = SendRequest(Recipient("", ""), h[a].Message,
                                           "REGULAR")],
     ret |-> a]

Regular(h, a) ==
    [heap |-> [h EXCEPT ![a].NotificationType = "REGULAR"], ret |-> a]

\* mutant: a value receiver, the setter works on and returns a copy
SilentPush_Copy(h, a) ==
    New(h, [h[a] EXCEPT !.NotificationType = "SILENT_PUSH"])

SilentPush(h, a) ==
    [heap |-> [h EXCEPT ![a].NotificationType = "SILENT_PUSH"], ret |-> a]

\* mutant: the value is stored only when none is set yet
NoPush_IfUnset(h, a) ==
    [heap |-> [h EXCEPT ![a].NotificationType =
                   IF @ = "" THEN "NO_PUSH" ELSE @],
     ret |-> a]

NoPush(h, a) ==
    [heap |-> [h EXCEPT ![a].NotificationType = "NO_PUSH"], ret |-> a]

----------------------------------------------------------------------------
(* The caller: one constructor call, then a chain of mutator calls, each    *)
(* made through any pointer the caller holds.                               *)

NoCtor == [fn |-> "none", arg |-> "", buttons |-> <<>>]

Call(fn, arg, recv) == [fn |-> fn, arg |-> arg, recv |-> recv]

\* the pointers the caller can call a mutator on
Held == {sr, ret} \ {0}

Init ==
    /\ heap = <<>>
    /\ sr = 0
    /\ ret = 0
    /\ ctor = NoCtor
    /\ calls = <<>>

CallTextMessage ==
    \E t \in Texts :
        /\ sr = 0
        /\ heap' = New(heap, TextMessage(t)).heap
        /\ sr' = New(heap, TextMessage(t)).ret
        /\ ctor' = [fn |-> "TextMessage", arg |-> t, buttons |-> <<>>]
        /\ UNCHANGED <<ret, calls>>

CallImageMessage ==
    \E u \in Urls :
        /\ sr = 0
        /\ heap' = New(heap, ImageMessage(u)).heap
        /\ sr' = New(heap, ImageMessage(u)).ret
        /\ ctor' = [fn |-> "ImageMessage", arg |-> u, buttons |-> <<>>]
        /\ UNCHANGED <<ret, calls>>

CallButtonTemplateMessage ==
    \E t \in Texts, bs \in ButtonLists :
        /\ sr = 0
        /\ heap' = New(heap, ButtonTemplateMessage(t, bs)).heap
        /\ sr' = New(heap, ButtonTemplateMessage(t, bs)).ret
        /\ ctor' = [fn |-> "ButtonTemplateMessage", arg |-> t, buttons |-> bs]
        /\ UNCHANGED <<ret, calls>>

Mutate(res, c) ==
    /\ Len(calls) < MaxCalls
    /\ heap' = res.heap
    /\ ret' = res.ret
    /\ calls' = Append(calls, c)
    /\ UNCHANGED <<sr, ctor>>

CallTo ==
    \E a \in Held, id \in UserIds :
        Mutate(To(heap, a, id), Call("To", id, a))

CallToPhoneNumber ==
    \E a \in Held, p \in PhoneNumbers :
        Mutate(ToPhoneNumber(heap, a, p), Call("ToPhoneNumber", p, a))

CallRegular ==
    \E a \in Held : Mutate(Regular(heap, a), Call("Regular", "", a))

CallSilentPush ==
    \E a \in Held : Mutate(SilentPush(heap, a), Call("SilentPush", "", a))

CallNoPush ==
    \E a \in Held : Mutate(NoPush(heap, a), Call("NoPush", "", a))

Next ==
    \/ CallTextMessage
    \/ CallImageMessage
    \/ CallButtonTemplateMessage
    \/ CallTo
    \/ CallToPhoneNumber
    \/ CallRegular
    \/ CallSilentPush
    \/ CallNoPush

Spec == Init /\ [][Next]_vars

----------------------------------------------------------------------------
(* Reading the history *)

RecipientSetters == {"To", "ToPhoneNumber"}
NotificationSetters == {"Regular", "SilentPush", "NoPush"}

\* index in calls of the last call of one of fns, 0 when there is none
LastIndex(fns) ==
    LET I == { i \in 1..Len(calls) : calls[i].fn \in fns }
    IN  IF I = {} THEN 0 ELSE CHOOSE i \in I : \A j \in I : j <= i

\* the request as the caller sees it through the constructor's pointer
Request == heap[sr]

Constructed == sr # 0

\* the value the recorded constructor call returned
Built ==
    CASE ctor.fn = "TextMessage" -> TextMessage(ctor.arg)
      [] ctor.fn = "ImageMessage" -> ImageMessage(ctor.arg)
      [] ctor.fn = "ButtonTemplateMessage" ->
            ButtonTemplateMessage(ctor.arg, ctor.buttons)

HasText(m) == m.Text # ""
HasAttachment(m) == m.Attachment # NilAttachment
HasId(r) == r.Id # ""
HasPhoneNumber(r) == r.PhoneNumber # ""

----------------------------------------------------------------------------
(* C1: for every text t, the empty text included, TextMessage(t) returns a  *)
(* request whose message text is t and whose attachment is absent, with no  *)
(* recipient identifier and no notification type set.                       *)
C1_TextMessage ==
    (ctor.fn = "TextMessage" /\ calls = <<>>) =>
        /\ Request.Message.Text = ctor.arg
        /\ Request.Message.Attachment = NilAttachment
        /\ Request.Recipient.Id = ""
        /\ Request.Recipient.PhoneNumber = ""
        /\ Request.NotificationType = ""

C1_Witness ==
    /\ Constructed
    /\ ctor.fn = "TextMessage"
    /\ ctor.arg = ""
    /\ calls = <<>>
    /\ ~HasText(Request.Message)

(* C2: for every url u, ImageMessage(u) returns a request whose attachment  *)
(* is present with type "image" and a media payload whose url is u, and     *)
(* whose message text is empty.                                             *)
C2_ImageMessage ==
    (ctor.fn = "ImageMessage" /\ calls = <<>>) =>
        /\ HasAttachment(Request.Message)
        /\ Request.Message.Attachment.Type = "image"
        /\ Request.Message.Attachment.Payload.GoType = "MediaPayload"
        /\ Request.Message.Attachment.Payload.Url = ctor.arg
        /\ Request.Message.Text = ""

C2_Witness ==
    /\ Constructed
    /\ ctor.fn = "ImageMessage"
    /\ ctor.arg # ""
    /\ calls = <<>>
    /\ Request.Message.Attachment.Payload.Url = ctor.arg

(* C3: for every text and every list of 0 to MaxButtons buttons,            *)
(* ButtonTemplateMessage(text, buttons...) returns a request whose          *)
(* attachment has type "template" and a payload with template type          *)
(* "button", the given text, and a button list of the same length with the  *)
(* same button at every position.                                           *)
C3_ButtonTemplateMessage ==
    (ctor.fn = "ButtonTemplateMessage" /\ calls = <<>>) =>
        LET att == Request.Message.Attachment IN
        /\ HasAttachment(Request.Message)
        /\ att.Type = "template"
        /\ att.Payload.GoType = "ButtonPayload"
        /\ att.Payload.TemplateType = "button"
        /\ att.Payload.Text = ctor.arg
        /\ Len(att.Payload.Buttons) = Len(ctor.buttons)
        /\ \A i \in 1..Len(ctor.buttons) :
               att.Payload.Buttons[i] = ctor.buttons[i]

C3_Witness ==
    /\ Constructed
    /\ ctor.fn = "ButtonTemplateMessage"
    /\ calls = <<>>
    /\ Len(ctor.buttons) = 3
    /\ ctor.buttons[1] # ctor.buttons[2]
    /\ ctor.buttons[1] = ctor.buttons[3]
    /\ Len(Request.Message.Attachment.Payload.Buttons) = 3

(* C4: after any sequence of To and ToPhoneNumber calls the recipient holds *)
(* only the identifier of the last call: after To(id) the id is id and the  *)
(* phone number is cleared, after ToPhoneNumber(p) the phone number is p    *)
(* and the id is cleared; never are both non-empty.                         *)
C4_LastRecipientWins ==
    Constructed =>
        LET k == LastIndex(RecipientSetters) IN
        /\ (k # 0 /\ calls[k].fn = "To") =>
               Request.Recipient = Recipient(calls[k].arg, "")
        /\ (k # 0 /\ calls[k].fn = "ToPhoneNumber") =>
               Request.Recipient = Recipient("", calls[k].arg)
        /\ ~(HasId(Request.Recipient) /\ HasPhoneNumber(Request.Recipient))

C4_Witness ==
    /\ Constructed
    /\ \E i, j \in 1..Len(calls) :
          /\ i < j
          /\ calls[i].fn = "ToPhoneNumber" /\ calls[i].arg # ""
          /\ calls[j].fn = "To" /\ calls[j].arg # ""
          /\ j = LastIndex(RecipientSetters)
    /\ HasId(Request.Recipient)
    /\ ~HasPhoneNumber(Request.Recipient)

\* the fixed string each notification-priority setter stores
NotificationValue(fn) ==
    CASE fn = "Regular" -> "REGULAR"
      [] fn = "SilentPush" -> "SILENT_PUSH"
      [] fn = "NoPush" -> "NO_PUSH"

(* C5: after any sequence of Regular, SilentPush and NoPush calls the       *)
(* notification type is the fixed string of the last setter called, absent  *)
(* when none was called; calling a setter a second time changes nothing.    *)
C5_LastNotificationWins ==
    Constructed =>
        LET k == LastIndex(NotificationSetters) IN
        /\ Request.NotificationType =
               (IF k = 0 THEN "" ELSE NotificationValue(calls[k].fn))
        /\ Request.NotificationType \in {"", "REGULAR", "SILENT_PUSH", "NO_PUSH"}
        /\ \A a \in Held :
              /\ Regular(Regular(heap, a).heap, a) = Regular(heap, a)
              /\ SilentPush(SilentPush(heap, a).heap, a) = SilentPush(heap, a)
              /\ NoPush(NoPush(heap, a).heap, a) = NoPush(heap, a)

C5_Witness ==
    /\ Constructed
    /\ Len(calls) = 3
    /\ calls[1].fn = "Regular"
    /\ calls[2].fn = "NoPush"
    /\ calls[3].fn = "NoPush"
    /\ Request.NotificationType = "NO_PUSH"

C9_SameInstance ==
    Constructed =>
        /\ Len(heap) = 1
        /\ ret # 0 => (ret = calls[Len(calls)].recv /\ ret = sr)
        /\ \A i \in 1..Len(calls) : calls[i].recv = sr
        /\ \A a \in Held : heap[a] = Request

C9_Witness ==
    /\ Constructed
    /\ Len(calls) = 3
    /\ ret = sr
    /\ { calls[i].fn : i \in 1..3 } = {"To", "SilentPush", "ToPhoneNumber"}
    /\ calls[3].recv = ret

\* the last call made by a step that made one
Made == calls'[Len(calls')]

\* a mutator step leaves alone every field but its own
C10_Frame ==
    (Constructed /\ calls' # calls) =>
        /\ Len(heap') = Len(heap)
        /\ heap'[sr].Message = heap[sr].Message
        /\ Made.fn \in RecipientSetters =>
               heap'[sr].NotificationType = heap[sr].NotificationType
        /\ Made.fn \in NotificationSetters =>
               heap'[sr].Recipient = heap[sr].Recipient

\* the message is the one the constructor built
C10_MessageKept == Constructed => Request.Message = Built.Message

\* a recipient setter and a notification-priority setter commute
C10_Commute ==
    \A a \in Held :
        /\ \A id \in UserIds :
              /\ To(Regular(heap, a).heap, a, id)
                     = Regular(To(heap, a, id).heap, a)
              /\ To(SilentPush(heap, a).heap, a, id)
                     = SilentPush(To(heap, a, id).heap, a)
              /\ To(NoPush(heap, a).heap, a, id)
                     = NoPush(To(heap, a, id).heap, a)
        /\ \A p \in PhoneNumbers :
              /\ ToPhoneNumber(Regular(heap, a).heap, a, p)
                     = Regular(ToPhoneNumber(heap, a, p).heap, a)
              /\ ToPhoneNumber(SilentPush(heap, a).heap, a, p)
                     = SilentPush(ToPhoneNumber(heap, a, p).heap, a)
              /\ ToPhoneNumber(NoPush(heap, a).heap, a, p)
                     = NoPush(ToPhoneNumber(heap, a, p).heap, a)

(* C10: each mutator changes only its own field: To and ToPhoneNumber leave *)
(* the message and the notification type unchanged, Regular, SilentPush and *)
(* NoPush leave the recipient and the message unchanged; so the message set *)
(* by the constructor is never altered and a recipient setter and a         *)
(* notification-priority setter give the same request in either order.      *)
C10_OwnFieldOnly ==
    /\ [][C10_Frame]_vars
    /\ []C10_MessageKept
    /\ []C10_Commute

C10_Witness ==
    /\ Constructed
    /\ ctor.fn = "ButtonTemplateMessage"
    /\ Len(ctor.buttons) = 2
    /\ Len(calls) = 3
    /\ calls[1].fn = "To" /\ calls[1].arg # ""
    /\ calls[2].fn = "SilentPush"
    /\ calls[3].fn = "ToPhoneNumber" /\ calls[3].arg # ""
    /\ Request.Message = Built.Message
    /\ Request.NotificationType = "SILENT_PUSH"

====
